---- MODULE Spec2Model ----
(***************************************************************************)
(* Deal convergence core of radar/runner.py: evidence accumulation, the    *)
(* dedupe-key upsert and the status lifecycle of the `deals` table, as     *)
(* driven by main().                                                       *)
(*                                                                         *)
(* Time is counted in instants, DayLen of them to a day.  In the table a   *)
(* normalized URL is a positive integer (its identity) and a raw URL is a  *)
(* record naming the normalized URL it denotes and the surface form it     *)
(* arrives in; normalize_url itself is modelled on texts further down.     *)
(* The columns description,                                                *)
(* canonical_name, one_liner, topic, hostname, score and updated_at are    *)
(* written by the upsert exactly as `title` is (always overwritten from    *)
(* the record) and are represented by `title`.                             *)
(***************************************************************************)
EXTENDS Integers, Sequences, FiniteSets, TLC

VARIABLES
    deals,        \* the `deals` table: a sequence of rows, row id = index
    clock,        \* wall clock, in instants
    pc,           \* position of main(): "idle", "ingest", "batch", "health", "exit"
    start_time,   \* main(): start_time
    total_errors, \* main(): total_deals_errors
    health,       \* main(): health_result
    exit_code,    \* the value main() returned, NULL while it has not
    now,          \* upsert_deals(): now, taken once per call
    remaining,    \* upsert_deals(): records of `items` not yet iterated
    processed,    \* upsert_deals(): processed_count
    reactivated,  \* upsert_deals(): reactivated_count
    errors,       \* upsert_deals(): error_count
    written,      \* history: per dedupe_key, number of upsert writes that landed
    sighted,      \* history: dedupe_keys written by upsert_deals in this run of main
    breached,     \* history: dedupe_keys whose entity was archived when a write of this run landed on it
    last,         \* history: the last operation, its dedupe_key, the status it found
    probe,        \* two records under normalize_url and compute_dedupe_key
    workers,      \* concurrent upsert_deals calls: position, lookup result and payload of each
    sweep         \* reactivate_dismissed_deals(): position, ids still to update, updated_count

vars == <<deals, clock, pc, start_time, total_errors, health, exit_code, now,
          remaining, processed, reactivated, errors, written, sighted, breached, last,
          probe, workers, sweep>>

-----------------------------------------------------------------------------
(* Bounds of the model *)

MaxDay == 8          \* the clock stops advancing on this day
MaxRunsPerDay == 1    \* runs of main() started on one day
MaxErrors == 1        \* per-item errors counted in one run of main()
MaxSightings == 3     \* sightings written to the table, over all entities
MaxBatch == 2         \* records per upsert_deals call

(* Program constants *)

EVIDENCE_URLS_MAX == 20
REACTIVATION_DAYS == 7

NULL == 0 - 1                       \* Python None / SQL NULL for a timestamp or a count
NoReason == "null"                  \* SQL NULL for dismissed_reason
TickDays == {4}                     \* the clock advances by one of these, in days

\* instants of one day: every run of main() started in it takes one
DayLen == MaxRunsPerDay + 1

\* timedelta(days=d), in instants
timedelta(d) == d * DayLen

-----------------------------------------------------------------------------
(* Sequence helpers *)

Range(s) == {s[i] : i \in 1..Len(s)}

NoDup(s) == \A i, j \in 1..Len(s) : s[i] = s[j] => i = j

\* Python s[-n:] for 0 < n
LastN(s, n) == IF Len(s) <= n THEN s ELSE SubSeq(s, Len(s) - n + 1, Len(s))

\* Python s[:n]
FirstN(s, n) == IF Len(s) <= n THEN s ELSE SubSeq(s, 1, n)

\* append each element of `add` that is not yet present, in order
RECURSIVE AppendAbsent(_, _)
AppendAbsent(base, add) ==
    IF add = <<>> THEN base
    ELSE IF Head(add) \in Range(base) THEN AppendAbsent(base, Tail(add))
    ELSE AppendAbsent(Append(base, Head(add)), Tail(add))

-----------------------------------------------------------------------------
(* Raw records *)

EmptyUrl == [id |-> 0, form |-> "empty"]          \* the empty string ""

BlankUrl == [id |-> 0, form |-> "blank"]          \* a string of whitespace, " "

Raw(n, f) == [id |-> n, form |-> f]

\* normalize_url on the records of the table model: the surface forms
\* "plain" and "decorated" of a URL (lower-case scheme, host case, one
\* "www.", one trailing slash, tracking parameters, fragment) map to the one
\* normalized URL; the empty string and a string of whitespace map to the
\* empty string (0).
normalize_url(u) == IF u.form \in {"empty", "blank"} THEN 0 ELSE u.id

PrimaryUrls == {1, 2}

NumKeys == Cardinality(PrimaryUrls)

\* extra evidence URLs carried by one ordinary sighting; three such blocks
\* together exceed EVIDENCE_URLS_MAX
BlockLen == EVIDENCE_URLS_MAX \div 3 + 1

Block(b) == [i \in 1..BlockLen |-> Raw(NumKeys + (b - 1) * BlockLen + i, "plain")]

\* the values of a record's `links` field
ExtraChoices ==
    { <<>>,
      Block(1), Block(2) \o Block(3),
      Block(1) \o Block(2) \o Block(3),
      <<Raw(NumKeys + 1, "decorated"), Raw(NumKeys + 1, "plain"), Raw(1, "decorated")>> }

\* Records for the status lifecycle: sightings of the first URL in two
\* surface forms with different titles and extra links, a record without
\* link and one without title
Items ==
    {[link |-> Raw(1, "plain"), title |-> "Foo - TechCrunch", links |-> <<>>],
     [link |-> Raw(1, "decorated"), title |-> "foo",
      links |-> <<Raw(NumKeys + 1, "decorated"), Raw(NumKeys + 1, "plain"), Raw(1, "decorated")>>],
     [link |-> EmptyUrl, title |-> "foo", links |-> <<>>],
     [link |-> Raw(1, "plain"), title |-> "", links |-> <<>>]}

\* Records for the failure handling of a batch: a sighting, a record without
\* link, records whose link is whitespace (alone, and with a further link)
\* and a record whose title is whitespace
BatchItems ==
    {[link |-> Raw(1, "plain"), title |-> "foo", links |-> <<>>],
     [link |-> EmptyUrl, title |-> "foo", links |-> <<>>],
     [link |-> BlankUrl, title |-> "foo", links |-> <<>>],
     [link |-> BlankUrl, title |-> "Foo - TechCrunch", links |-> <<Raw(2, "plain")>>],
     [link |-> Raw(1, "plain"), title |-> " ", links |-> <<>>]}

\* Records for concurrent calls: sightings of the first URL, each with a
\* further link of its own
ConcItems ==
    [link : {Raw(1, "plain")}, title : {"foo"},
     links : {<<>>, <<Raw(NumKeys + 1, "plain")>>, <<Raw(NumKeys + 2, "plain")>>}]

\* Records for the evidence accumulation: sightings of the first URL with
\* every choice of extra links, sightings of the others with few
EvidenceItems ==
    [link : {Raw(1, "plain")}, title : {"foo"}, links : ExtraChoices]
    \cup [link : {Raw(n, "plain") : n \in PrimaryUrls \ {1}}, title : {"foo"},
          links : {<<>>, Block(1)}]

\* generate_evidence_urls: the normalized primary URL first, then every
\* normalized extra link, without repetition, in encounter order
RECURSIVE NormalizeAll(_)
NormalizeAll(us) ==
    IF us = <<>> THEN <<>>
    ELSE IF normalize_url(Head(us)) = 0 THEN NormalizeAll(Tail(us))
    ELSE <<normalize_url(Head(us))>> \o NormalizeAll(Tail(us))

generate_evidence_urls(item, url) ==
    AppendAbsent(<<>>, NormalizeAll(<<url>> \o item.links))

\* str.strip() and str.lower() on the texts of the records
Strip(t) == IF t = " " THEN "" ELSE t

Lower(t) ==
    CASE t = "Foo" -> "foo"
      [] t = "WWW.Example.com" -> "www.example.com"
      [] OTHER -> t

\* get_hostname: the netloc of the raw URL, as spelled
get_hostname(url) ==
    CASE url.form \in {"empty", "blank"} -> ""
      [] url.form = "decorated" -> "WWW.Example.com"
      [] OTHER -> "example.com"

\* the separator patterns cut " - TechCrunch"; a title that cleans to nothing
\* is returned as it is
clean_canonical_name(title) ==
    IF title = "" THEN ""
    ELSE LET cleaned == Strip(IF title = "Foo - TechCrunch" THEN "Foo" ELSE title)
         IN  IF cleaned # "" THEN cleaned ELSE title

\* the records carry none of company / product / name / canonical_name
generate_canonical_name(title, hostname) ==
    IF title # "" /\ clean_canonical_name(title) # "" THEN clean_canonical_name(title)
    ELSE IF hostname # "" THEN hostname
    ELSE IF title # "" THEN title
    ELSE "(untitled)"

\* the records carry no summary and no snippet: " ".join(title.split())
generate_one_liner(title) ==
    IF title # "" THEN Strip(title) ELSE "no description"

\* compute_dedupe_key: "url:" + sha1(normalized url) when the normalized URL
\* is non-empty, "ht:" + sha1((hostname|canonical_name or title).lower().strip())
\* otherwise; the hash is taken to be injective, so a key is what is hashed
compute_dedupe_key(url, hostname, canonical_name, title) ==
    IF normalize_url(url) # 0
    THEN [disc |-> "url", h |-> normalize_url(url), ht |-> <<"", "">>]
    ELSE [disc |-> "ht", h |-> 0,
          ht |-> <<Lower(hostname),
                   Lower(Strip(IF canonical_name # "" THEN canonical_name ELSE title))>>]

\* the dedupe_key upsert_deals computes for a record
KeyOf(item) ==
    LET hostname == get_hostname(item.link) IN
    compute_dedupe_key(item.link, hostname,
                       generate_canonical_name(item.title, hostname), item.title)

\* the three assertions on the generated fields hold
FieldsAsserted(item) ==
    /\ generate_evidence_urls(item, item.link) # <<>>
    /\ Strip(generate_canonical_name(item.title, get_hostname(item.link))) # ""
    /\ Strip(generate_one_liner(item.title)) # ""

DedupeKeys ==
    {KeyOf(item) : item \in Items \cup EvidenceItems \cup BatchItems \cup ConcItems}

-----------------------------------------------------------------------------
(* The store *)

\* select ... .eq("dedupe_key", k).limit(1): index of the first match, 0 if none
FindByKey(ds, k) ==
    IF \E i \in 1..Len(ds) : ds[i].dedupe_key = k
    THEN CHOOSE i \in 1..Len(ds) :
            /\ ds[i].dedupe_key = k
            /\ \A j \in 1..(i - 1) : ds[j].dedupe_key # k
    ELSE 0

\* column defaults of an inserted row
RowDefaults ==
    [status |-> "new", dismissed_reason |-> NoReason, dismissed_at |-> NULL]

\* variant: the store adds one to the stored seen_count and merges the
\* payload's evidence_urls into the stored list
StoreUpsert_ServerSide(ds, data) ==
    LET i == FindByKey(ds, data.dedupe_key) IN
    IF i = 0 THEN Append(ds, data @@ RowDefaults)
    ELSE [ds EXCEPT ![i] =
            [seen_count |-> ds[i].seen_count + 1,
             evidence_urls |-> LastN(AppendAbsent(ds[i].evidence_urls, data.evidence_urls),
                                      EVIDENCE_URLS_MAX)]
            @@ data @@ ds[i]]

\* upsert(data, on_conflict="dedupe_key"): the row with data's dedupe_key
\* takes the columns data carries and keeps the others; without such a row
\* one is inserted with the column defaults
StoreUpsert(ds, data) ==
    LET i == FindByKey(ds, data.dedupe_key) IN
    IF i = 0 THEN Append(ds, data @@ RowDefaults)
    ELSE [ds EXCEPT ![i] = data @@ ds[i]]

-----------------------------------------------------------------------------
(* upsert_deals: the body of its loop, for one record *)

None == "none"                      \* Python None for the local `status`

\* a datetime: its instant and whether it carries tzinfo
Datetime(t, tz) == [t |-> t, aware |-> tz]

\* datetime.fromisoformat(dismissed_at_str) followed by the tzinfo branch:
\* an aware value is converted with astimezone().replace(tzinfo=None), a
\* naive value is kept; `tz` says whether the stored string carries an offset
ParseDismissedAt(t, tz) ==
    LET dismissed_at_dt == Datetime(t, tz) IN
    IF dismissed_at_dt.aware
    THEN Datetime(dismissed_at_dt.t, FALSE)
    ELSE dismissed_at_dt

\* a - b on datetimes: TypeError when exactly one of them is aware
DatetimeSub(a, b) ==
    IF a.aware # b.aware
    THEN [raised |-> TRUE, delta |-> 0]
    ELSE [raised |-> FALSE, delta |-> a.t - b.t]

\* variant: a dismissed_at that cannot be compared is treated like a missing one
StatusDecision_ReviveOnError(existing_status, dismissed_at_str, nowT, tz) ==
    IF existing_status = "shortlisted" THEN [status |-> None, react |-> 0]
    ELSE IF existing_status = "dismissed" THEN
        IF dismissed_at_str # NULL THEN
            LET time_diff == DatetimeSub(Datetime(nowT, TRUE),
                                         ParseDismissedAt(dismissed_at_str, tz))
            IN  IF time_diff.raised THEN [status |-> "new", react |-> 1]
                ELSE IF time_diff.delta <= timedelta(REACTIVATION_DAYS)
                     THEN [status |-> "new", react |-> 1]
                     ELSE [status |-> None, react |-> 0]
        ELSE [status |-> "new", react |-> 1]
    ELSE [status |-> None, react |-> 0]

\* variant: a dismissed row without dismissed_at is left dismissed
StatusDecision_NullStays(existing_status, dismissed_at_str, nowT, tz) ==
    IF existing_status = "shortlisted" THEN [status |-> None, react |-> 0]
    ELSE IF existing_status = "dismissed" THEN
        IF dismissed_at_str # NULL THEN
            LET time_diff == DatetimeSub(Datetime(nowT, TRUE),
                                         ParseDismissedAt(dismissed_at_str, tz))
            IN  IF time_diff.raised THEN [status |-> None, react |-> 0]
                ELSE IF time_diff.delta <= timedelta(REACTIVATION_DAYS)
                     THEN [status |-> "new", react |-> 1]
                     ELSE [status |-> None, react |-> 0]
        ELSE [status |-> None, react |-> 0]
    ELSE [status |-> None, react |-> 0]

\* rule A / rule B: the value of the local `status` (None = leave the stored
\* status alone) and the amount added to reactivated_count
StatusDecision(existing_status, dismissed_at_str, nowT, tz) ==
    IF existing_status = "shortlisted" THEN [status |-> None, react |-> 0]
    ELSE IF existing_status = "dismissed" THEN
        IF dismissed_at_str # NULL THEN
            LET time_diff == DatetimeSub(Datetime(nowT, TRUE),
                                         ParseDismissedAt(dismissed_at_str, tz))
            IN  IF time_diff.raised THEN [status |-> None, react |-> 0]
                ELSE IF time_diff.delta <= timedelta(REACTIVATION_DAYS)
                     THEN [status |-> "new", react |-> 1]
                     ELSE [status |-> None, react |-> 0]
        ELSE [status |-> "new", react |-> 1]
    ELSE [status |-> None, react |-> 0]

\* variant: no archived guard
ArchivedSkip_Off(existing) == FALSE

\* the archived guard: the record is skipped when the row found is archived
ArchivedSkip(existing) == existing # <<>> /\ existing[1].status = "archived"

\* variant: the merged list is not cut
MergeEvidence_NoTrim(existing_evidence_urls, new_evidence_urls) ==
    AppendAbsent(existing_evidence_urls, new_evidence_urls)

\* merge of the stored evidence_urls with the record's
MergeEvidence(existing_evidence_urls, new_evidence_urls) ==
    LET merged_evidence_urls == AppendAbsent(existing_evidence_urls, new_evidence_urls) IN
    IF Len(merged_evidence_urls) > EVIDENCE_URLS_MAX
    THEN LastN(merged_evidence_urls, EVIDENCE_URLS_MAX)
    ELSE merged_evidence_urls

EvidenceFor(existing, new_evidence_urls) ==
    IF existing # <<>>
    THEN MergeEvidence(existing[1].evidence_urls, new_evidence_urls)
    ELSE FirstN(new_evidence_urls, EVIDENCE_URLS_MAX)

\* variant: every write carries seen_count 1
SeenCountFor_Always1(existing) == 1

\* variant: the stored seen_count is written back without the increment
SeenCountFor_NoIncrement(existing) ==
    IF existing # <<>> THEN existing[1].seen_count ELSE 1

\* (existing_deal.get("seen_count") or 0) + 1, or 1 for a new entity
SeenCountFor(existing) ==
    IF existing # <<>>
    THEN (IF existing[1].seen_count = NULL THEN 0 ELSE existing[1].seen_count) + 1
    ELSE 1

\* the status columns of the payload
StatusFields(existing_status, status) ==
    IF existing_status = "shortlisted" THEN FALSE ELSE status # None

\* variant: the payload always carries a status, "new" when none was decided
BuildData_StatusAlways(item, existing, nowT, status) ==
    [dedupe_key    |-> KeyOf(item),
     title         |-> item.title,
     url           |-> normalize_url(item.link),
     evidence_urls |-> EvidenceFor(existing, generate_evidence_urls(item, item.link)),
     last_seen_at  |-> nowT,
     seen_count    |-> SeenCountFor(existing),
     status        |-> "new"]
    @@ (IF existing = <<>> THEN [created_at |-> nowT, first_seen_at |-> nowT]
        ELSE [last_seen_at |-> nowT])

\* variant: created_at and first_seen_at are written on every upsert
BuildData_AlwaysCreated(item, existing, nowT, status) ==
    LET base == [dedupe_key    |-> KeyOf(item),
                 title         |-> item.title,
                 url           |-> normalize_url(item.link),
                 evidence_urls |-> EvidenceFor(existing, generate_evidence_urls(item, item.link)),
                 last_seen_at  |-> nowT,
                 seen_count    |-> SeenCountFor(existing),
                 created_at    |-> nowT,
                 first_seen_at |-> nowT]
    IN  IF status # None
        THEN base @@ [status |-> status, dismissed_reason |-> NoReason, dismissed_at |-> NULL]
        ELSE base

\* variant: a status is written without dismissed_reason and dismissed_at
BuildData_KeepsDismissal(item, existing, nowT, status) ==
    LET existing_status == IF existing # <<>> THEN existing[1].status ELSE None
        base == [dedupe_key    |-> KeyOf(item),
                 title         |-> item.title,
                 url           |-> normalize_url(item.link),
                 evidence_urls |-> EvidenceFor(existing, generate_evidence_urls(item, item.link)),
                 last_seen_at  |-> nowT,
                 seen_count    |-> SeenCountFor(existing)]
        created == IF existing = <<>>
                   THEN base @@ [created_at |-> nowT, first_seen_at |-> nowT]
                   ELSE base
    IN  IF StatusFields(existing_status, status)
        THEN created @@ [status |-> status]
        ELSE created

\* the payload `data` of the upsert
BuildData(item, existing, nowT, status) ==
    LET existing_status == IF existing # <<>> THEN existing[1].status ELSE None
        base == [dedupe_key    |-> KeyOf(item),
                 title         |-> item.title,
                 url           |-> normalize_url(item.link),
                 evidence_urls |-> EvidenceFor(existing, generate_evidence_urls(item, item.link)),
                 last_seen_at  |-> nowT,
                 seen_count    |-> SeenCountFor(existing)]
        created == IF existing = <<>>
                   THEN base @@ [created_at |-> nowT, first_seen_at |-> nowT]
                   ELSE base
    IN  IF StatusFields(existing_status, status)
        THEN created @@ [status |-> status, dismissed_reason |-> NoReason, dismissed_at |-> NULL]
        ELSE created

\* One iteration of the loop: the table afterwards, the amounts added to the
\* three counters, and what happened ("abort": an assertion failed and the
\* AssertionError leaves upsert_deals).  lookupOk / writeOk say whether the
\* select and the upsert call return or raise.
UpsertOne(ds, item, nowT, lookupOk, writeOk, tz) ==
    LET key      == KeyOf(item)
        i        == FindByKey(ds, key)
        existing == IF i = 0 THEN <<>> ELSE <<ds[i]>>
        skip(op, e) == [deals |-> ds, processed |-> 0, reactivated |-> 0, errors |-> e,
                        op |-> op, key |-> key]
    IN  IF item.link = EmptyUrl \/ item.title = "" THEN skip("skip_empty", 0)
        ELSE IF ~FieldsAsserted(item) THEN skip("abort", 0)
        ELSE IF ~lookupOk THEN skip("lookup_failed", 1)
        ELSE IF ArchivedSkip(existing) THEN skip("skip_archived", 0)
        ELSE
            LET decision == IF existing # <<>>
                            THEN StatusDecision(existing[1].status, existing[1].dismissed_at, nowT, tz)
                            ELSE [status |-> None, react |-> 0]
                data == BuildData(item, existing, nowT, decision.status)
            IN  IF writeOk
                THEN [deals |-> StoreUpsert(ds, data), processed |-> 1,
                      reactivated |-> decision.react, errors |-> 0,
                      op |-> IF existing = <<>> THEN "create" ELSE "merge",
                      key |-> key]
                ELSE [skip("write_failed", 0) EXCEPT !.reactivated = decision.react]

-----------------------------------------------------------------------------
(* reactivate_dismissed_deals *)

\* the select: ids of the rows with status dismissed and
\* last_seen_at >= now - 7 days
ReactivateSelect(ds, nowT) ==
    {i \in 1..Len(ds) : /\ ds[i].status = "dismissed"
                         /\ ds[i].last_seen_at >= nowT - timedelta(REACTIVATION_DAYS)}

\* the per-id update
ReactivateUpdate(row) ==
    [row EXCEPT !.status = "new", !.dismissed_reason = NoReason, !.dismissed_at = NULL]

-----------------------------------------------------------------------------
(* health_check_deals *)

\* health_result while the check has not run
NoReport ==
    [evidence_over_20 |-> NULL, seen_count_null |-> NULL,
     latest_last_seen_at |-> NULL, archived_updated_last_2h |-> NULL]

\* the result returned when the statistics query raises
ZeroReport ==
    [evidence_over_20 |-> 0, seen_count_null |-> 0,
     latest_last_seen_at |-> NULL, archived_updated_last_2h |-> 0]

Max(S) == CHOOSE x \in S : \A y \in S : y <= x

\* variant: the archived query is not in a try of its own, so that its
\* failure is caught by the outer except
health_check_deals_NoInnerTry(ds, run_started_at, statsOk, archOk) ==
    IF ~statsOk \/ ~archOk THEN ZeroReport
    ELSE
      [evidence_over_20 |->
          Cardinality({i \in 1..Len(ds) : Len(ds[i].evidence_urls) > EVIDENCE_URLS_MAX}),
       seen_count_null |->
          Cardinality({i \in 1..Len(ds) : ds[i].seen_count = NULL}),
       latest_last_seen_at |->
          IF ds = <<>> THEN NULL ELSE Max({ds[i].last_seen_at : i \in 1..Len(ds)}),
       archived_updated_last_2h |->
          Cardinality({i \in 1..Len(ds) : /\ ds[i].status = "archived"
                                            /\ ds[i].last_seen_at > run_started_at})]

\* statsOk / archOk say whether the statistics query and the archived query
\* return or raise
health_check_deals(ds, run_started_at, statsOk, archOk) ==
    IF ~statsOk THEN ZeroReport
    ELSE
      [evidence_over_20 |->
          Cardinality({i \in 1..Len(ds) : Len(ds[i].evidence_urls) > EVIDENCE_URLS_MAX}),
       seen_count_null |->
          Cardinality({i \in 1..Len(ds) : ds[i].seen_count = NULL}),
       latest_last_seen_at |->
          IF ds = <<>> THEN NULL ELSE Max({ds[i].last_seen_at : i \in 1..Len(ds)}),
       archived_updated_last_2h |->
          IF archOk
          THEN Cardinality({i \in 1..Len(ds) : /\ ds[i].status = "archived"
                                                /\ ds[i].last_seen_at > run_started_at})
          ELSE 0]

\* variant: per-item errors also fail the run
ExitCodeFor_ErrorsFatal(health_result, errs) ==
    IF health_result.archived_updated_last_2h > 0 \/ errs > 0 THEN 1 ELSE 0

\* the value main() returns after the health check
ExitCodeFor(health_result, errs) ==
    IF health_result.archived_updated_last_2h > 0 THEN 1 ELSE 0

-----------------------------------------------------------------------------
(* normalize_url on texts.  A text is a sequence of characters; the texts   *)
(* considered are built of the characters of Letters, Capitals and Digits   *)
(* and of : / ? # & = . _ % + and the blank.                                *)

Letters == {"a", "b", "c", "d", "e", "f", "g", "h", "i", "k", "l", "m", "o",
            "p", "r", "s", "t", "u", "w", "x"}

Capitals == {"A", "D", "E", "F", "H", "M", "P", "R", "S", "T", "U", "W"}

Digits == {"1", "2", "3"}

\* str.lower()
LowerChar(c) ==
    CASE c = "A" -> "a" [] c = "D" -> "d" [] c = "E" -> "e" [] c = "F" -> "f"
      [] c = "H" -> "h" [] c = "M" -> "m" [] c = "P" -> "p" [] c = "R" -> "r"
      [] c = "S" -> "s" [] c = "T" -> "t" [] c = "U" -> "u" [] c = "W" -> "w"
      [] OTHER -> c

LowerText(t) == [i \in 1..Len(t) |-> LowerChar(t[i])]

StartsWith(t, p) == Len(t) >= Len(p) /\ SubSeq(t, 1, Len(p)) = p

EndsWith(t, p) == Len(t) >= Len(p) /\ SubSeq(t, Len(t) - Len(p) + 1, Len(t)) = p

\* t[n:]
Drop(t, n) == SubSeq(t, n + 1, Len(t))

\* str.find for any of the characters cs: the first position, 0 if none
Find(t, cs) ==
    IF \E i \in 1..Len(t) : t[i] \in cs
    THEN CHOOSE i \in 1..Len(t) : t[i] \in cs /\ \A j \in 1..(i - 1) : t[j] \notin cs
    ELSE 0

\* str.strip()
RECURSIVE StripText(_)
StripText(t) ==
    IF t # <<>> /\ Head(t) = " " THEN StripText(Tail(t))
    ELSE IF t # <<>> /\ t[Len(t)] = " " THEN StripText(SubSeq(t, 1, Len(t) - 1))
    ELSE t

\* str.split(c)
RECURSIVE Split(_, _)
Split(t, c) ==
    LET i == Find(t, {c}) IN
    IF i = 0 THEN <<t>> ELSE <<SubSeq(t, 1, i - 1)>> \o Split(Drop(t, i), c)

\* str.join
RECURSIVE Join(_, _)
Join(ts, c) ==
    IF ts = <<>> THEN <<>>
    ELSE IF Len(ts) = 1 THEN ts[1]
    ELSE ts[1] \o <<c>> \o Join(Tail(ts), c)

\* the code point of a character, for the order of sorted()
Ord(c) ==
    CASE c = " " -> 32
      [] c = "#" -> 35
      [] c = "%" -> 37
      [] c = "&" -> 38
      [] c = "+" -> 43
      [] c = "." -> 46
      [] c = "/" -> 47
      [] c = "1" -> 49
      [] c = "2" -> 50
      [] c = "3" -> 51
      [] c = ":" -> 58
      [] c = "=" -> 61
      [] c = "?" -> 63
      [] c = "A" -> 65
      [] c = "D" -> 68
      [] c = "E" -> 69
      [] c = "F" -> 70
      [] c = "H" -> 72
      [] c = "M" -> 77
      [] c = "P" -> 80
      [] c = "R" -> 82
      [] c = "S" -> 83
      [] c = "T" -> 84
      [] c = "U" -> 85
      [] c = "W" -> 87
      [] c = "_" -> 95
      [] c = "a" -> 97
      [] c = "b" -> 98
      [] c = "c" -> 99
      [] c = "d" -> 100
      [] c = "e" -> 101
      [] c = "f" -> 102
      [] c = "g" -> 103
      [] c = "h" -> 104
      [] c = "i" -> 105
      [] c = "k" -> 107
      [] c = "l" -> 108
      [] c = "m" -> 109
      [] c = "o" -> 111
      [] c = "p" -> 112
      [] c = "r" -> 114
      [] c = "s" -> 115
      [] c = "t" -> 116
      [] c = "u" -> 117
      [] c = "w" -> 119
      [] c = "x" -> 120

\* a < b or a = b in the order of Python strings
RECURSIVE TextLeq(_, _)
TextLeq(a, b) ==
    IF a = <<>> THEN TRUE
    ELSE IF b = <<>> THEN FALSE
    ELSE IF Ord(Head(a)) # Ord(Head(b)) THEN Ord(Head(a)) < Ord(Head(b))
    ELSE TextLeq(Tail(a), Tail(b))

\* sorted() of a set of texts
RECURSIVE Sorted(_)
Sorted(S) ==
    IF S = {} THEN <<>>
    ELSE LET m == CHOOSE x \in S : \A y \in S : TextLeq(x, y)
         IN  <<m>> \o Sorted(S \ {m})

\* urllib.parse.urlparse for a text without ";" and without brackets
SchemeChars == Letters \cup Capitals \cup Digits \cup {"+", "."}

urlparse(url) ==
    LET i == Find(url, {":"})
        hasScheme == /\ i > 1
                     /\ url[1] \in Letters \cup Capitals
                     /\ \A j \in 1..(i - 1) : url[j] \in SchemeChars
        scheme == IF hasScheme THEN LowerText(SubSeq(url, 1, i - 1)) ELSE <<>>
        rest == IF hasScheme THEN Drop(url, i) ELSE url
        hasNetloc == StartsWith(rest, <<"/", "/">>)
        delim == Find(Drop(rest, 2), {"/", "?", "#"})
        netloc == IF ~hasNetloc THEN <<>>
                  ELSE IF delim = 0 THEN Drop(rest, 2)
                  ELSE SubSeq(rest, 3, delim + 1)
        url2 == IF ~hasNetloc THEN rest
                ELSE IF delim = 0 THEN <<>>
                ELSE Drop(rest, delim + 1)
        f == Find(url2, {"#"})
        fragment == IF f = 0 THEN <<>> ELSE Drop(url2, f)
        url3 == IF f = 0 THEN url2 ELSE SubSeq(url2, 1, f - 1)
        q == Find(url3, {"?"})
    IN  [scheme |-> scheme, netloc |-> netloc,
         path |-> IF q = 0 THEN url3 ELSE SubSeq(url3, 1, q - 1),
         params |-> <<>>,
         query |-> IF q = 0 THEN <<>> ELSE Drop(url3, q),
         fragment |-> fragment]

\* urllib.parse.unquote after replace('+', ' '), for the escapes quote_plus
\* produces on the characters considered
RECURSIVE Unquote(_)
Unquote(t) ==
    IF t = <<>> THEN <<>>
    ELSE IF Head(t) = "+" THEN <<" ">> \o Unquote(Tail(t))
    ELSE IF StartsWith(t, <<"%", "3", "A">>) THEN <<":">> \o Unquote(Drop(t, 3))
    ELSE IF StartsWith(t, <<"%", "2", "F">>) THEN <<"/">> \o Unquote(Drop(t, 3))
    ELSE IF StartsWith(t, <<"%", "3", "F">>) THEN <<"?">> \o Unquote(Drop(t, 3))
    ELSE IF StartsWith(t, <<"%", "3", "D">>) THEN <<"=">> \o Unquote(Drop(t, 3))
    ELSE <<Head(t)>> \o Unquote(Tail(t))

\* urllib.parse.quote_plus
RECURSIVE quote_plus(_)
quote_plus(t) ==
    IF t = <<>> THEN <<>>
    ELSE (CASE Head(t) = " " -> <<"+">>
            [] Head(t) = ":" -> <<"%", "3", "A">>
            [] Head(t) = "/" -> <<"%", "2", "F">>
            [] Head(t) = "?" -> <<"%", "3", "F">>
            [] Head(t) = "=" -> <<"%", "3", "D">>
            [] OTHER -> <<Head(t)>>) \o quote_plus(Tail(t))

\* urllib.parse.parse_qsl(qs, keep_blank_values=False): the (name, value)
\* pairs of the fields that have a "=" and a non-empty value
RECURSIVE PairsOf(_)
PairsOf(fields) ==
    IF fields = <<>> THEN <<>>
    ELSE LET name_value == Head(fields)
             e == Find(name_value, {"="})
         IN  IF e = 0 \/ e = Len(name_value) THEN PairsOf(Tail(fields))
             ELSE <<<<Unquote(SubSeq(name_value, 1, e - 1)), Unquote(Drop(name_value, e))>>>>
                  \o PairsOf(Tail(fields))

parse_qsl(qs) == IF qs = <<>> THEN <<>> ELSE PairsOf(Split(qs, "&"))

\* urllib.parse.urlencode of a sequence of (name, value) pairs
urlencode(params) ==
    Join([i \in 1..Len(params) |-> quote_plus(params[i][1]) \o <<"=">> \o quote_plus(params[i][2])],
         "&")

uses_netloc == {<<"h", "t", "t", "p">>, <<"h", "t", "t", "p", "s">>}

\* urllib.parse.urlunparse with an empty fragment
urlunparse(scheme, netloc, path, params, query) ==
    LET url == IF params # <<>> THEN path \o <<";">> \o params ELSE path
        url2 == IF netloc # <<>> \/ (scheme \in uses_netloc /\ ~StartsWith(url, <<"/", "/">>))
                THEN <<"/", "/">> \o netloc
                     \o (IF url # <<>> /\ Head(url) # "/" THEN <<"/">> \o url ELSE url)
                ELSE url
        url3 == IF scheme # <<>> THEN scheme \o <<":">> \o url2 ELSE url2
    IN  IF query # <<>> THEN url3 \o <<"?">> \o query ELSE url3

tracking_params ==
    {<<"r", "e", "f">>,
     <<"r", "e", "f", "_", "s", "r", "c">>,
     <<"f", "b", "c", "l", "i", "d">>,
     <<"g", "c", "l", "i", "d">>,
     <<"i", "g", "s", "h", "i", "d">>,
     <<"m", "c", "_", "c", "i", "d">>,
     <<"m", "c", "_", "e", "i", "d">>,
     <<"s", "p", "m">>,
     <<"s", "o", "u", "r", "c", "e">>,
     <<"m", "k", "t", "_", "t", "o", "k">>}

\* filtered_query[key] = values[0]: the value of the first field named key
first_value(pairs, key) ==
    pairs[CHOOSE i \in 1..Len(pairs) :
            /\ pairs[i][1] = key
            /\ \A j \in 1..(i - 1) : pairs[j][1] # key][2]

\* urlencode(sorted(filtered_query.items()))
sorted_params(pairs, sorted_keys) ==
    urlencode([i \in 1..Len(sorted_keys) |->
                  <<sorted_keys[i], first_value(pairs, sorted_keys[i])>>])

\* the query without the utm_ and tracking fields, its keys sorted
filtered_query(pairs) ==
    sorted_params(pairs,
                  Sorted({key \in {pairs[i][1] : i \in 1..Len(pairs)} :
                             /\ ~StartsWith(key, <<"u", "t", "m", "_">>)
                             /\ LowerText(key) \notin tracking_params}))

\* normalize_url from the parsed URL on
normalize_parsed(parsed) ==
    LET lowered == LowerText(parsed.netloc)
        netloc == IF StartsWith(lowered, <<"w", "w", "w", ".">>) THEN Drop(lowered, 4) ELSE lowered
        path == IF parsed.path # <<"/">> /\ EndsWith(parsed.path, <<"/">>)
                THEN SubSeq(parsed.path, 1, Len(parsed.path) - 1)
                ELSE parsed.path
    IN  urlunparse(<<"h", "t", "t", "p", "s">>, netloc, path, parsed.params,
                   filtered_query(parse_qsl(parsed.query)))

\* normalize_url from the stripped text on
normalize_stripped(u) ==
    IF u = <<>> THEN <<>>
    ELSE normalize_parsed(urlparse(
             IF StartsWith(u, <<"h", "t", "t", "p", ":", "/", "/">>) \/ StartsWith(u, <<"h", "t", "t", "p", "s", ":", "/", "/">>)
             THEN u ELSE <<"h", "t", "t", "p", "s", ":", "/", "/">> \o u))

\* normalize_url, on a text
normalize_url_text(u0) == normalize_stripped(StripText(u0))

\* get_hostname, on a text
get_hostname_text(url) == urlparse(url).netloc

\* variant: the key also takes the title in
compute_dedupe_key_text_WithTitle(url, hostname, canonical_name, title) ==
    IF normalize_url_text(url) # <<>>
    THEN [disc |-> "url", h |-> normalize_url_text(url), ht |-> <<<<>>, title>>]
    ELSE [disc |-> "ht", h |-> <<>>,
          ht |-> <<LowerText(hostname),
                   Lower(Strip(IF canonical_name # "" THEN canonical_name ELSE title))>>]

\* compute_dedupe_key, on a text: what is hashed, under "url:" or "ht:"
compute_dedupe_key_text(url, hostname, canonical_name, title) ==
    IF normalize_url_text(url) # <<>>
    THEN [disc |-> "url", h |-> normalize_url_text(url), ht |-> <<<<>>, "">>]
    ELSE [disc |-> "ht", h |-> <<>>,
          ht |-> <<LowerText(hostname),
                   Lower(Strip(IF canonical_name # "" THEN canonical_name ELSE title))>>]

\* the dedupe_key upsert_deals computes for a record with this link and title
KeyOfText(url, title) ==
    compute_dedupe_key_text(url, get_hostname_text(url),
                            generate_canonical_name(title, get_hostname_text(url)), title)

\* `p in t` on texts
Contains(t, p) ==
    \E i \in 1..(Len(t) - Len(p) + 1) : SubSeq(t, i, i + Len(p) - 1) = p

\* the backfill's test for a stored url that still needs normalizing
url_needs_normalize(url) ==
    /\ url # <<>>
    /\ \E param \in {<<"u", "t", "m", "_">>, <<"r", "e", "f", "=">>, <<"f", "b", "c", "l", "i", "d", "=">>, <<"g", "c", "l", "i", "d", "=">>} : Contains(url, param)

\* Raw URL texts: every combination of these parts, and the empty and the
\* blank text
Schemes == {<<>>, <<"h", "t", "t", "p", ":", "/", "/">>, <<"h", "t", "t", "p", "s", ":", "/", "/">>, <<"H", "T", "T", "P", ":", "/", "/">>}

Wwws == {<<>>, <<"w", "w", "w", ".">>, <<"W", "W", "W", ".">>, <<"w", "w", "w", ".", "w", "w", "w", ".">>}

Hosts == {<<"e", "x", "a", "m", "p", "l", "e", ".", "c", "o", "m">>, <<"E", "x", "a", "m", "p", "l", "e", ".", "c", "o", "m">>}

Paths == {<<>>, <<"/">>, <<"/", "p", "a", "t", "h">>, <<"/", "p", "a", "t", "h", "/">>, <<"/", "p", "a", "t", "h", "/", "/">>}

Queries ==
    {<<>>,
     <<"?", "a", "=", "1", "&", "b", "=", "2">>,
     <<"?", "u", "t", "m", "_", "s", "o", "u", "r", "c", "e", "=", "x", "&", "b", "=", "2", "&", "a", "=", "1">>,
     <<"?", "b", "=", "2", "&", "r", "e", "f", "=", "x", "&", "a", "=", "1", "&", "a", "=", "3">>,
     <<"?", "h", "r", "e", "f", "=", "x">>}

Frags == {<<>>, <<"#", "f", "r", "a", "g">>}

UrlTexts ==
    {s \o w \o h \o p \o q \o f :
        s \in Schemes, w \in Wwws, h \in Hosts, p \in Paths, q \in Queries, f \in Frags}
    \cup {<<>>, <<" ">>}

\* the texts a raw URL is compared with
ExampleUpper == <<"H", "T", "T", "P", ":", "/", "/", "W", "W", "W", ".", "E", "x", "a", "m", "p", "l", "e", ".", "c", "o", "m", "/", "p", "a", "t", "h", "/", "?", "u", "t", "m", "_", "s", "o", "u", "r", "c", "e", "=", "x", "&", "b", "=", "2", "&", "a", "=", "1", "#", "f", "r", "a", "g">>

ExampleCanonical == <<"h", "t", "t", "p", "s", ":", "/", "/", "e", "x", "a", "m", "p", "l", "e", ".", "c", "o", "m", "/", "p", "a", "t", "h", "?", "a", "=", "1", "&", "b", "=", "2">>

RefTexts == {ExampleCanonical, <<"h", "t", "t", "p", "s", ":", "/", "/", "e", "x", "a", "m", "p", "l", "e", ".", "c", "o", "m">>, <<" ">>}

NoTextKey == [disc |-> "none", h |-> <<>>, ht |-> <<<<>>, "">>]

\* `probe` while no URL is being looked at
NoProbe ==
    [stage |-> "off", a |-> <<>>, b |-> <<>>, ta |-> "", tb |-> "",
     na |-> <<>>, nb |-> <<>>, ka |-> NoTextKey, kb |-> NoTextKey,
     nna |-> <<>>, kka |-> NoTextKey]

-----------------------------------------------------------------------------
(* Initial state: an empty table, main() not running *)

NoKey == [disc |-> "none", h |-> 0, ht |-> <<"", "">>]

\* `last` before any record was handled and after a step of the environment
NoOp == [op |-> "none", key |-> NoKey, status |-> None]

InitTable ==
    /\ deals = <<>>
    /\ clock = 0
    /\ pc = "idle"
    /\ start_time = 0
    /\ total_errors = 0
    /\ health = NoReport
    /\ exit_code = NULL
    /\ now = 0
    /\ remaining = 0
    /\ processed = 0
    /\ reactivated = 0
    /\ errors = 0
    /\ written = [k \in DedupeKeys |-> 0]
    /\ sighted = {}
    /\ breached = {}
    /\ last = NoOp

Workers == {1, 2}

NoItem == [link |-> EmptyUrl, title |-> "", links |-> <<>>]

\* a call that has not started.  at: "idle", "loop" (between two records) or
\* "write" (lookup done, payload built, upsert not yet sent); item, read and
\* data are the record, the row found by its lookup and the payload; wrote
\* and landed are history: the keys this call has written, and whether the
\* write for `item` was made
IdleWorker ==
    [at |-> "idle", left |-> 0, now |-> 0, item |-> NoItem, read |-> <<>>,
     data |-> <<>>, wrote |-> {}, landed |-> FALSE]

\* reactivate_dismissed_deals not running.  at: "idle" or "update" (the
\* select returned, the per-id updates are being sent)
IdleSweep == [at |-> "idle", ids |-> {}, updated_count |-> 0]

Init ==
    /\ InitTable
    /\ probe = NoProbe
    /\ workers = [w \in Workers |-> IdleWorker]
    /\ sweep = IdleSweep

auxVars == <<probe, workers, sweep>>

runnerVars == <<pc, start_time, total_errors, health, exit_code, now, remaining,
                processed, reactivated, errors, sighted, breached>>

-----------------------------------------------------------------------------
(* Environment: the passing of time and the curator *)

\* days pass between runs of main()
Tick(d) ==
    /\ pc = "idle"
    /\ clock \div DayLen + d <= MaxDay
    /\ clock' = (clock \div DayLen + d) * DayLen
    /\ last' = NoOp
    /\ UNCHANGED <<deals, runnerVars, written>>
    /\ UNCHANGED auxVars

Curate(i, row) ==
    /\ deals' = [deals EXCEPT ![i] = row]
    /\ last' = NoOp
    /\ UNCHANGED <<clock, runnerVars, written>>
    /\ UNCHANGED auxVars

\* the deal_archive procedure
CuratorArchive(i) ==
    /\ i \in 1..Len(deals)
    /\ deals[i].status # "archived"
    /\ Curate(i, [deals[i] EXCEPT !.status = "archived",
                                  !.dismissed_reason = NoReason,
                                  !.dismissed_at = NULL])

CuratorShortlist(i) ==
    /\ i \in 1..Len(deals)
    /\ deals[i].status \in {"new", "dismissed"}
    /\ Curate(i, [deals[i] EXCEPT !.status = "shortlisted",
                                  !.dismissed_reason = NoReason,
                                  !.dismissed_at = NULL])

\* stamped: whether dismissed_at is recorded (rows dismissed before the
\* column existed carry none)
CuratorDismiss(i, stamped) ==
    /\ i \in 1..Len(deals)
    /\ deals[i].status \in {"new", "shortlisted"}
    /\ Curate(i, [deals[i] EXCEPT !.status = "dismissed",
                                  !.dismissed_reason = "pass",
                                  !.dismissed_at = IF stamped THEN clock ELSE NULL])

-----------------------------------------------------------------------------
(* main() *)

\* start_time is taken, the configuration loaded and the client created;
\* configOk / clientOk say whether load_config and get_supabase_client succeed
MainStart(configOk, clientOk) ==
    /\ pc = "idle"
    /\ clock % DayLen < MaxRunsPerDay
    /\ start_time' = clock
    /\ clock' = clock + 1
    /\ IF configOk /\ clientOk
       THEN pc' = "ingest" /\ exit_code' = NULL
       ELSE pc' = "exit" /\ exit_code' = 1
    /\ total_errors' = 0
    /\ health' = NoReport
    /\ sighted' = {}
    /\ breached' = {}
    /\ last' = NoOp
    /\ UNCHANGED <<deals, now, remaining, processed, reactivated, errors, written>>
    /\ UNCHANGED auxVars

\* stats = upsert_deals(client, results, topic_name): entry, n = len(items)
UpsertDealsCall(n) ==
    /\ pc = "ingest"
    /\ pc' = "batch"
    /\ now' = clock
    /\ remaining' = n
    /\ processed' = 0
    /\ reactivated' = 0
    /\ errors' = 0
    /\ last' = NoOp
    /\ UNCHANGED <<deals, clock, start_time, total_errors, health, exit_code,
                   written, sighted, breached>>
    /\ UNCHANGED auxVars

RECURSIVE SumSeen(_)
SumSeen(ds) == IF ds = <<>> THEN 0 ELSE Head(ds).seen_count + SumSeen(Tail(ds))

\* one iteration of `for item in items`
UpsertItem(item, lookupOk, writeOk, tz) ==
    /\ pc = "batch"
    /\ remaining > 0
    /\ LET r == UpsertOne(deals, item, now, lookupOk, writeOk, tz)
           i == FindByKey(deals, r.key)
       IN
        /\ SumSeen(r.deals) <= MaxSightings
        /\ total_errors + errors + r.errors <= MaxErrors
        /\ deals' = r.deals
        /\ written' = IF r.op \in {"create", "merge"}
                      THEN [written EXCEPT ![r.key] = @ + 1] ELSE written
        /\ sighted' = IF r.op \in {"create", "merge"}
                      THEN sighted \cup {r.key} ELSE sighted
        /\ breached' = IF r.op = "merge" /\ deals[i].status = "archived"
                       THEN breached \cup {r.key} ELSE breached
        /\ last' = [op |-> r.op, key |-> r.key,
                    status |-> IF i = 0 \/ r.op \in {"skip_empty", "abort", "lookup_failed"}
                               THEN None ELSE deals[i].status]
        /\ IF r.op = "abort"
           THEN \* the AssertionError passes through main(): the process ends
                \* with a traceback and exit status 1
                /\ pc' = "exit"
                /\ exit_code' = 1
                /\ now' = 0
                /\ remaining' = 0
                /\ processed' = 0
                /\ reactivated' = 0
                /\ errors' = 0
           ELSE /\ remaining' = remaining - 1
                /\ processed' = processed + r.processed
                /\ reactivated' = reactivated + r.reactivated
                /\ errors' = errors + r.errors
                /\ UNCHANGED <<pc, exit_code, now>>
    /\ UNCHANGED <<clock, start_time, total_errors, health>>
    /\ UNCHANGED auxVars

\* return {"processed": ..., "reactivated": ..., "errors": ...}, and main()
\* adding the counts to its totals (of which only the errors are kept here:
\* all three are printed and nothing else)
UpsertDealsReturn ==
    /\ pc = "batch"
    /\ remaining = 0
    /\ pc' = "ingest"
    /\ total_errors' = total_errors + errors
    /\ last' = NoOp
    /\ now' = 0
    /\ processed' = 0
    /\ reactivated' = 0
    /\ errors' = 0
    /\ UNCHANGED <<deals, clock, start_time, health, exit_code, remaining,
                   written, sighted, breached>>
    /\ UNCHANGED auxVars

\* the weekly report was generated and upsert_weekly_report returned False
SaveReportFailed ==
    /\ pc = "ingest"
    /\ pc' = "exit"
    /\ exit_code' = 1
    /\ last' = NoOp
    /\ UNCHANGED <<deals, clock, start_time, total_errors, health, now, remaining,
                   processed, reactivated, errors, written, sighted, breached>>
    /\ UNCHANGED auxVars

\* the weekly report saved or empty, then
\* db_reactivated_count = reactivate_dismissed_deals(client); `failed` are the
\* ids whose update raises; selectOk says whether the select returns
ReactivateDismissedDeals(selectOk, failed) ==
    /\ pc = "ingest"
    /\ pc' = "health"
    /\ LET ids == IF selectOk THEN ReactivateSelect(deals, clock) ELSE {} IN
        /\ failed \subseteq ids
        /\ deals' = [i \in 1..Len(deals) |->
                        IF i \in ids \ failed THEN ReactivateUpdate(deals[i]) ELSE deals[i]]
    /\ last' = [NoOp EXCEPT !.op = "reactivate"]
    /\ UNCHANGED <<clock, start_time, total_errors, health, exit_code, now, remaining,
                   processed, reactivated, errors, written, sighted, breached>>
    /\ UNCHANGED auxVars

\* health_result = health_check_deals(client, run_started_at=start_time) and
\* the return of main() that follows it
HealthCheckDeals(statsOk, archOk) ==
    /\ pc = "health"
    /\ pc' = "exit"
    /\ health' = health_check_deals(deals, start_time, statsOk, archOk)
    /\ exit_code' = ExitCodeFor(health', total_errors)
    /\ last' = [NoOp EXCEPT !.op = IF ~statsOk THEN "health_stats_failed"
                                  ELSE IF ~archOk THEN "health_archived_failed"
                                  ELSE "health"]
    /\ UNCHANGED <<deals, clock, start_time, total_errors, now, remaining, processed,
                   reactivated, errors, written, sighted, breached>>
    /\ UNCHANGED auxVars

\* sys.exit(exit_code): the process ends
MainReturn ==
    /\ pc = "exit"
    /\ pc' = "idle"
    /\ start_time' = 0
    /\ total_errors' = 0
    /\ health' = NoReport
    /\ exit_code' = NULL
    /\ sighted' = {}
    /\ breached' = {}
    /\ last' = NoOp
    /\ UNCHANGED <<deals, clock, now, remaining, processed, reactivated, errors, written>>
    /\ UNCHANGED auxVars

Next ==
    \/ \E d \in TickDays : Tick(d)
    \/ \E i \in 1..NumKeys : CuratorArchive(i)
    \/ \E i \in 1..NumKeys : CuratorShortlist(i)
    \/ \E i \in 1..NumKeys, stamped \in BOOLEAN : CuratorDismiss(i, stamped)
    \/ MainStart(TRUE, TRUE)
    \/ \E configOk, clientOk \in BOOLEAN :
          ~(configOk /\ clientOk) /\ MainStart(configOk, clientOk)
    \/ \E n \in 1..MaxBatch : UpsertDealsCall(n)
    \/ \E item \in Items, tz \in BOOLEAN : UpsertItem(item, TRUE, TRUE, tz)
    \/ \E item \in Items, tz \in BOOLEAN : UpsertItem(item, FALSE, TRUE, tz)
    \/ \E item \in Items, tz \in BOOLEAN : UpsertItem(item, TRUE, FALSE, tz)
    \/ UpsertDealsReturn
    \/ SaveReportFailed
    \/ \E selectOk \in BOOLEAN, failed \in SUBSET (1..NumKeys) :
          ReactivateDismissedDeals(selectOk, failed)
    \/ \E statsOk, archOk \in BOOLEAN : HealthCheckDeals(statsOk, archOk)
    \/ MainReturn

Spec == Init /\ [][Next]_vars

\* Evidence accumulation: runs of main() over records rich in extra links,
\* with the curator archiving
NextEvidence ==
    \/ \E i \in 1..NumKeys : CuratorArchive(i)
    \/ MainStart(TRUE, TRUE)
    \/ \E n \in 1..MaxBatch : UpsertDealsCall(n)
    \/ \E item \in EvidenceItems : UpsertItem(item, TRUE, TRUE, TRUE)
    \/ \E item \in EvidenceItems : UpsertItem(item, TRUE, FALSE, TRUE)
    \/ UpsertDealsReturn
    \/ \E selectOk \in BOOLEAN, failed \in SUBSET (1..NumKeys) :
          ReactivateDismissedDeals(selectOk, failed)
    \/ \E statsOk, archOk \in BOOLEAN : HealthCheckDeals(statsOk, archOk)
    \/ MainReturn

SpecEvidence == Init /\ [][NextEvidence]_vars

\* Failure handling of a batch: runs of main() over records that cannot be
\* keyed by URL, with failing lookups and writes
NextBatch ==
    \/ \E d \in TickDays : Tick(d)
    \/ \E i \in 1..NumKeys : CuratorArchive(i)
    \/ MainStart(TRUE, TRUE)
    \/ \E n \in 1..MaxBatch : UpsertDealsCall(n)
    \/ \E item \in BatchItems : UpsertItem(item, TRUE, TRUE, TRUE)
    \/ \E item \in BatchItems : UpsertItem(item, FALSE, TRUE, TRUE)
    \/ \E item \in BatchItems : UpsertItem(item, TRUE, FALSE, TRUE)
    \/ UpsertDealsReturn
    \/ SaveReportFailed
    \/ \E selectOk \in BOOLEAN, failed \in SUBSET (1..NumKeys) :
          ReactivateDismissedDeals(selectOk, failed)
    \/ \E statsOk, archOk \in BOOLEAN : HealthCheckDeals(statsOk, archOk)
    \/ MainReturn

SpecBatch == Init /\ [][NextBatch]_vars

-----------------------------------------------------------------------------
(* Two upsert_deals calls running at the same time against the one table.   *)
(* The select and the upsert of a record are separate requests to the       *)
(* store; whatever else reaches the store may come between them.            *)

RECURSIVE SumWritten(_)
SumWritten(K) ==
    IF K = {} THEN 0
    ELSE LET k == CHOOSE x \in K : TRUE IN written[k] + SumWritten(K \ {k})

tableVars == <<clock, pc, start_time, total_errors, health, exit_code, now, remaining,
               processed, reactivated, errors, sighted, probe, sweep>>

\* entry of upsert_deals: the counters and `now`
ConcCall(w, n) ==
    /\ workers[w].at = "idle"
    /\ workers' = [workers EXCEPT ![w] =
                      [IdleWorker EXCEPT !.at = "loop", !.left = n, !.now = clock]]
    /\ last' = NoOp
    /\ UNCHANGED <<deals, tableVars, written, breached>>

\* one record, up to the payload: guard, assertions, lookup, archived guard,
\* merge, status decision
ConcLookup(w, item) ==
    /\ workers[w].at = "loop"
    /\ workers[w].left > 0
    /\ LET me == workers[w]
           key == KeyOf(item)
           i == FindByKey(deals, key)
           existing == IF i = 0 THEN <<>> ELSE <<deals[i]>>
           next == [me EXCEPT !.left = @ - 1, !.item = item, !.read = <<>>,
                              !.data = <<>>, !.landed = FALSE]
       IN  IF item.link = EmptyUrl \/ item.title = ""
           THEN workers' = [workers EXCEPT ![w] = next]
                /\ last' = [op |-> "skip_empty", key |-> key, status |-> None]
           ELSE IF ~FieldsAsserted(item)
           THEN workers' = [workers EXCEPT ![w] = IdleWorker]
                /\ last' = [op |-> "abort", key |-> key, status |-> None]
           ELSE IF ArchivedSkip(existing)
           THEN workers' = [workers EXCEPT ![w] = [next EXCEPT !.read = existing]]
                /\ last' = [op |-> "skip_archived", key |-> key, status |-> "archived"]
           ELSE LET decision == IF existing # <<>>
                                THEN StatusDecision(existing[1].status,
                                                    existing[1].dismissed_at, me.now, TRUE)
                                ELSE [status |-> None, react |-> 0]
                    data == BuildData(item, existing, me.now, decision.status)
                IN  workers' = [workers EXCEPT ![w] =
                                   [me EXCEPT !.at = "write", !.item = item,
                                              !.read = existing, !.data = <<data>>,
                                              !.landed = FALSE]]
                    /\ last' = [op |-> "lookup", key |-> key,
                                status |-> IF i = 0 THEN None ELSE deals[i].status]
    /\ UNCHANGED <<deals, tableVars, written, breached>>

\* the upsert of the payload; writeOk says whether it returns or raises
ConcWrite(w, writeOk) ==
    /\ workers[w].at = "write"
    /\ LET me == workers[w]
           data == me.data[1]
           i == FindByKey(deals, data.dedupe_key)
       IN  /\ SumWritten(DedupeKeys) < MaxSightings
           /\ deals' = IF writeOk THEN StoreUpsert(deals, data) ELSE deals
           /\ written' = IF writeOk THEN [written EXCEPT ![data.dedupe_key] = @ + 1]
                         ELSE written
           /\ breached' = IF writeOk /\ i # 0 /\ deals[i].status = "archived"
                          THEN breached \cup {data.dedupe_key} ELSE breached
           /\ workers' = [workers EXCEPT ![w] =
                             [me EXCEPT !.at = "loop", !.left = @ - 1, !.data = <<>>,
                                        !.landed = writeOk,
                                        !.wrote = IF writeOk THEN @ \cup {data.dedupe_key}
                                                  ELSE @]]
           /\ last' = [op |-> IF writeOk THEN "write" ELSE "write_failed",
                       key |-> data.dedupe_key,
                       status |-> IF i = 0 THEN None ELSE deals[i].status]
    /\ UNCHANGED tableVars

\* return of upsert_deals
ConcReturn(w) ==
    /\ workers[w].at = "loop"
    /\ workers[w].left = 0
    /\ workers' = [workers EXCEPT ![w] = IdleWorker]
    /\ last' = NoOp
    /\ UNCHANGED <<deals, tableVars, written, breached>>

NextConc ==
    \/ \E i \in 1..NumKeys : CuratorArchive(i)
    \/ \E w \in Workers, n \in 1..MaxBatch : ConcCall(w, n)
    \/ \E w \in Workers, item \in ConcItems : ConcLookup(w, item)
    \/ \E w \in Workers : ConcWrite(w, TRUE)
    \/ \E w \in Workers : ConcWrite(w, FALSE)
    \/ \E w \in Workers : ConcReturn(w)

SpecConc == Init /\ [][NextConc]_vars

\* Two upsert_deals calls started at different times over the same record
TwinItems == {item \in ConcItems : item.links = <<>>}

NextTwin ==
    \/ \E d \in TickDays : Tick(d)
    \/ \E w \in Workers, n \in 1..MaxBatch : ConcCall(w, n)
    \/ \E w \in Workers, item \in TwinItems : ConcLookup(w, item)
    \/ \E w \in Workers : ConcWrite(w, TRUE)
    \/ \E w \in Workers : ConcWrite(w, FALSE)
    \/ \E w \in Workers : ConcReturn(w)

SpecTwin == Init /\ [][NextTwin]_vars

-----------------------------------------------------------------------------
(* reactivate_dismissed_deals as the requests it sends: its select and each *)
(* per-id update are separate requests to the store.                        *)

\* the select; selectOk says whether it returns or raises.  Without ids the
\* function returns 0
ReactSelect(selectOk) ==
    /\ sweep.at = "idle"
    /\ LET deal_ids == IF selectOk THEN ReactivateSelect(deals, clock) ELSE {} IN
          sweep' = IF deal_ids = {} THEN IdleSweep
                   ELSE [at |-> "update", ids |-> deal_ids, updated_count |-> 0]
    /\ last' = NoOp
    /\ UNCHANGED <<deals, clock, runnerVars, written, probe, workers>>

\* the update of one selected id, by id alone; updateOk says whether it
\* returns or raises
ReactUpdate(deal_id, updateOk) ==
    /\ sweep.at = "update"
    /\ deal_id \in sweep.ids
    /\ deals' = IF updateOk
                THEN [deals EXCEPT ![deal_id] = ReactivateUpdate(deals[deal_id])]
                ELSE deals
    /\ sweep' = [sweep EXCEPT !.ids = @ \ {deal_id},
                              !.updated_count = IF updateOk THEN @ + 1 ELSE @]
    /\ last' = [op |-> IF updateOk THEN "reactivate_update" ELSE "reactivate_failed",
                key |-> deals[deal_id].dedupe_key,
                status |-> deals[deal_id].status]
    /\ UNCHANGED <<clock, runnerVars, written, probe, workers>>

\* return updated_count
ReactReturn ==
    /\ sweep.at = "update"
    /\ sweep.ids = {}
    /\ sweep' = IdleSweep
    /\ last' = NoOp
    /\ UNCHANGED <<deals, clock, runnerVars, written, probe, workers>>

\* One upsert_deals call and one reactivate_dismissed_deals call, with the
\* curator acting on the same table between their requests
Ingestor == CHOOSE w \in Workers : TRUE

NextRace ==
    \/ \E i \in 1..NumKeys : CuratorArchive(i)
    \/ \E i \in 1..NumKeys : CuratorShortlist(i)
    \/ \E i \in 1..NumKeys, stamped \in BOOLEAN : CuratorDismiss(i, stamped)
    \/ \E n \in 1..MaxBatch : ConcCall(Ingestor, n)
    \/ \E item \in ConcItems : ConcLookup(Ingestor, item)
    \/ ConcWrite(Ingestor, TRUE)
    \/ ConcWrite(Ingestor, FALSE)
    \/ ConcReturn(Ingestor)
    \/ ReactSelect(TRUE)
    \/ ReactSelect(FALSE)
    \/ \E deal_id \in 1..NumKeys : ReactUpdate(deal_id, TRUE)
    \/ \E deal_id \in 1..NumKeys : ReactUpdate(deal_id, FALSE)
    \/ ReactReturn

SpecRace == Init /\ [][NextRace]_vars

-----------------------------------------------------------------------------
(* normalize_url and compute_dedupe_key applied to two records *)

ProbeTitles == {<<"foo", "foo">>, <<"foo", "Foo - TechCrunch">>}

InitUrl ==
    /\ InitTable
    /\ probe \in {[NoProbe EXCEPT !.stage = "raw", !.a = a, !.b = b,
                                   !.ta = t[1], !.tb = t[2]] :
                      a \in UrlTexts, b \in RefTexts, t \in ProbeTitles}
    /\ workers = [w \in Workers |-> IdleWorker]
    /\ sweep = IdleSweep

mainVars == <<deals, clock, runnerVars, written, last>>

\* normalized_url = normalize_url(url), for both records
NormalizeBoth ==
    /\ probe.stage = "raw"
    /\ probe' = [probe EXCEPT !.stage = "normalized",
                              !.na = normalize_url_text(probe.a),
                              !.nb = normalize_url_text(probe.b)]
    /\ UNCHANGED <<mainVars, workers, sweep>>

\* dedupe_key = compute_dedupe_key(url, hostname, canonical_name, title), for
\* both records
ComputeKeys ==
    /\ probe.stage = "normalized"
    /\ probe' = [probe EXCEPT !.stage = "keyed",
                              !.ka = KeyOfText(probe.a, probe.ta),
                              !.kb = KeyOfText(probe.b, probe.tb)]
    /\ UNCHANGED <<mainVars, workers, sweep>>

\* the stored url of the first record is normalized again and its key
\* computed from it, as the backfill does
Renormalize ==
    /\ probe.stage = "keyed"
    /\ probe' = [probe EXCEPT !.stage = "renormalized",
                              !.nna = normalize_url_text(probe.na),
                              !.kka = KeyOfText(probe.na, probe.ta)]
    /\ UNCHANGED <<mainVars, workers, sweep>>

\* main() of backfill_deals_fields.py on the entity upsert_deals stored for
\* the first record (url na, dedupe_key ka, canonical_name, one_liner and
\* evidence_urls filled): when the row is among deals_to_update its url and
\* dedupe_key are recomputed and written; updateOk says whether the update
\* returns or raises.  nna and kka are the stored url and key afterwards.
BackfillMain(updateOk) ==
    /\ probe.stage = "keyed"
    /\ probe.na # <<>>
    /\ LET hostname == get_hostname_text(probe.a)
           canonical_name == generate_canonical_name(probe.ta, hostname)
           new_dedupe_key == compute_dedupe_key_text(probe.na, hostname, canonical_name, probe.ta)
       IN  probe' = IF url_needs_normalize(probe.na) /\ updateOk
                    THEN [probe EXCEPT !.stage = "backfilled",
                                       !.nna = normalize_url_text(probe.na),
                                       !.kka = new_dedupe_key]
                    ELSE [probe EXCEPT !.stage = "backfilled",
                                       !.nna = probe.na,
                                       !.kka = probe.ka]
    /\ UNCHANGED <<mainVars, workers, sweep>>

NextUrl ==
    \/ NormalizeBoth
    \/ ComputeKeys
    \/ Renormalize
    \/ BackfillMain(TRUE)
    \/ BackfillMain(FALSE)

SpecUrl == InitUrl /\ [][NextUrl]_vars

-----------------------------------------------------------------------------
(* Vocabulary of the properties *)

\* a step that is one iteration of the loop of upsert_deals
UpsertStep == pc = "batch" /\ remaining' = remaining - 1

\* the row the record of this iteration matches, before the step (0 if none)
Target == FindByKey(deals, last'.key)

\* the upsert call of this iteration returned
Landed == processed' = processed + 1

RowsOf(ds, k) == {i \in 1..Len(ds) : ds[i].dedupe_key = k}

-----------------------------------------------------------------------------
-----------------------------------------------------------------------------
(* C2: re-ingesting a record whose entity is shortlisted adds exactly 1 to  *)
(* seen_count and sets last_seen_at to the batch time, and the stored       *)
(* status is still shortlisted afterwards.                                  *)
C2_ShortlistedKeepsStatus ==
    [][(UpsertStep /\ Target # 0 /\ deals[Target].status = "shortlisted" /\ Landed)
          => /\ deals'[Target].seen_count = deals[Target].seen_count + 1
             /\ deals'[Target].last_seen_at = now
             /\ deals'[Target].status = "shortlisted"]_vars

C2_Witness ==
    /\ last.op = "merge"
    /\ last.status = "shortlisted"
    /\ \E i \in RowsOf(deals, last.key) :
          /\ deals[i].status = "shortlisted"
          /\ deals[i].seen_count >= 2
          /\ deals[i].last_seen_at = now
          /\ deals[i].first_seen_at < now

-----------------------------------------------------------------------------
(* C3 (as stated): re-ingesting a record whose entity is dismissed with a   *)
(* dismissed_at at most 7 days before the batch time turns the entity to    *)
(* status new with dismissed_reason and dismissed_at null and adds one to   *)
(* the reactivated count.                                                   *)
C3_ReactivatesWithinWindow ==
    [][(/\ UpsertStep /\ Target # 0 /\ Landed
        /\ deals[Target].status = "dismissed"
        /\ deals[Target].dismissed_at # NULL
        /\ now - deals[Target].dismissed_at <= timedelta(REACTIVATION_DAYS))
          => /\ deals'[Target].status = "new"
             /\ deals'[Target].dismissed_reason = NoReason
             /\ deals'[Target].dismissed_at = NULL
             /\ reactivated' = reactivated + 1]_vars

-----------------------------------------------------------------------------
(* C4: re-ingesting a record whose entity is dismissed with a dismissed_at  *)
(* more than 7 days before the batch time leaves status, dismissed_reason   *)
(* and dismissed_at as they were and does not add to the reactivated count; *)
(* when the write lands, seen_count grows by 1 and last_seen_at becomes the *)
(* batch time.                                                              *)
C4_StaysDismissedBeyondWindow ==
    [][(/\ UpsertStep /\ Target # 0
        /\ deals[Target].status = "dismissed"
        /\ deals[Target].dismissed_at # NULL
        /\ now - deals[Target].dismissed_at > timedelta(REACTIVATION_DAYS))
          => /\ deals'[Target].status = "dismissed"
             /\ deals'[Target].dismissed_reason = deals[Target].dismissed_reason
             /\ deals'[Target].dismissed_at = deals[Target].dismissed_at
             /\ reactivated' = reactivated
             /\ Landed => /\ deals'[Target].seen_count = deals[Target].seen_count + 1
                          /\ deals'[Target].last_seen_at = now]_vars

C4_Witness ==
    /\ last.op = "merge"
    /\ last.status = "dismissed"
    /\ \E i \in RowsOf(deals, last.key) :
          /\ deals[i].status = "dismissed"
          /\ deals[i].dismissed_at # NULL
          /\ now - deals[i].dismissed_at > timedelta(REACTIVATION_DAYS)
          /\ deals[i].last_seen_at = now
          /\ deals[i].seen_count >= 2

-----------------------------------------------------------------------------
(* C5 (as stated): no automated step of a run of main turns an entity from  *)
(* dismissed to new unless its dismissed_at lies at most 7 days back, and   *)
(* never an entity that was not re-sighted in that run.                     *)
C5_RevivalOnlyWithinWindow ==
    [][\A i \in 1..Len(deals) :
          (deals[i].status = "dismissed" /\ deals'[i].status = "new")
             => /\ deals[i].dismissed_at # NULL
                      => clock - deals[i].dismissed_at <= timedelta(REACTIVATION_DAYS)
                /\ deals[i].dedupe_key \in sighted']_vars

-----------------------------------------------------------------------------
(* C6: after the first write for a dedupe_key the table holds exactly one   *)
(* entity for it with seen_count 1, and after the second write for the same *)
(* key still exactly one, with seen_count 2 and that same dedupe_key.       *)
C6_TwiceIsOneEntity ==
    \A k \in DedupeKeys :
        /\ written[k] = 0 => RowsOf(deals, k) = {}
        /\ written[k] \in {1, 2} =>
              /\ Cardinality(RowsOf(deals, k)) = 1
              /\ \A i \in RowsOf(deals, k) : deals[i].seen_count = written[k]

C6_Witness ==
    /\ last.op = "merge"
    /\ written[last.key] = 2
    /\ \E i \in RowsOf(deals, last.key) :
          deals[i].seen_count = 2 /\ deals[i].status = "new"
    /\ Len(deals) = NumKeys

-----------------------------------------------------------------------------
(* C7: no step lowers an entity's seen_count, and after every step each     *)
(* entity's seen_count is the number of upsert writes that landed for its   *)
(* key; records skipped as archived, failed lookups and failed writes add    *)
(* nothing.                                                                 *)
C7_SeenCountCountsWrites ==
    [][/\ \A i \in 1..Len(deals) :
             /\ i <= Len(deals')
             /\ deals'[i].seen_count >= deals[i].seen_count
             /\ (~UpsertStep \/ ~Landed) => deals'[i].seen_count = deals[i].seen_count
       /\ \A i \in 1..Len(deals') :
             deals'[i].seen_count = written'[deals'[i].dedupe_key]]_vars

C7_Witness ==
    /\ last.op \in {"skip_archived", "write_failed", "lookup_failed"}
    /\ \E i \in RowsOf(deals, last.key) :
          deals[i].seen_count = MaxSightings /\ written[last.key] = MaxSightings

-----------------------------------------------------------------------------
(* C8: every entity's evidence_urls has at most 20 entries and no URL       *)
(* twice, also when one sighting carries more than 20 evidence URLs.        *)
C8_EvidenceBounded ==
    \A i \in 1..Len(deals) :
        /\ Len(deals[i].evidence_urls) <= EVIDENCE_URLS_MAX
        /\ NoDup(deals[i].evidence_urls)

C8_Witness ==
    /\ last.op = "create"
    /\ \E i \in RowsOf(deals, last.key) :
          /\ Len(deals[i].evidence_urls) = EVIDENCE_URLS_MAX
          /\ deals[i].seen_count = 1

-----------------------------------------------------------------------------
(* C9 (as stated): when a sighting is merged into an entity and more than   *)
(* 20 distinct URLs have been fed, evidence_urls has exactly 20 entries and *)
(* holds the most recently seen URLs; in particular the primary URL, which  *)
(* the merged sighting carries, is among them.                              *)
C9_KeepsMostRecentlySeen ==
    [][(UpsertStep /\ Landed /\ Target # 0)
          => LET old == deals[Target].evidence_urls
                 new == deals'[Target].evidence_urls
             IN  /\ Cardinality(Range(old) \cup Range(new)) > EVIDENCE_URLS_MAX
                       => Len(new) = EVIDENCE_URLS_MAX
                 /\ deals'[Target].url \in Range(new)]_vars

-----------------------------------------------------------------------------
(* C10: no step changes the first_seen_at or created_at of an existing      *)
(* entity, and after every step last_seen_at >= first_seen_at holds for     *)
(* every entity.                                                            *)
C10_FirstSeenFrozen ==
    [][/\ \A i \in 1..Len(deals) :
             /\ i <= Len(deals')
             /\ deals'[i].first_seen_at = deals[i].first_seen_at
             /\ deals'[i].created_at = deals[i].created_at
       /\ \A i \in 1..Len(deals') :
             deals'[i].last_seen_at >= deals'[i].first_seen_at]_vars

C10_Witness ==
    /\ last.op = "merge"
    /\ \E i \in RowsOf(deals, last.key) :
          /\ deals[i].seen_count >= 2
          /\ deals[i].last_seen_at = now
          /\ deals[i].first_seen_at < now
          /\ deals[i].created_at = deals[i].first_seen_at

-----------------------------------------------------------------------------
(* C11: when main() has returned after its health check, the exit code is   *)
(* non-zero exactly when the report's count of archived entities with       *)
(* last_seen_at later than the run's start time is non-zero, however many   *)
(* per-item errors the run counted.                                         *)
C11_ArchivedCountDecidesExit ==
    (pc = "exit" /\ health # NoReport)
        => (exit_code # 0 <=> health.archived_updated_last_2h > 0)

C11_Witness ==
    /\ pc = "exit"
    /\ health.archived_updated_last_2h > 0
    /\ exit_code # 0
    /\ total_errors = 0

-----------------------------------------------------------------------------
(* C12 (as stated): the health report's archived count is non-zero only if  *)
(* some write of upsert_deals in this run landed on an entity that was      *)
(* archived when the write was made; an entity written in the run and       *)
(* archived by the curator afterwards does not make it non-zero.            *)
C12_CountMeansProtectionViolated ==
    (pc = "exit" /\ health # NoReport /\ health.archived_updated_last_2h > 0)
        => breached # {}

-----------------------------------------------------------------------------
(* C13 (as stated): when the lookup for a record raises, nothing is written *)
(* for it, errors grows by exactly one and the loop goes on with the next   *)
(* record; and upsert_deals is left only by its return, after every record  *)
(* of the batch was iterated.                                               *)
C13_LookupFailureCountedBatchReturns ==
    [][/\ (pc = "batch" /\ last'.op = "lookup_failed")
             => /\ deals' = deals
                /\ errors' = errors + 1
                /\ processed' = processed
                /\ remaining' = remaining - 1
                /\ pc' = "batch"
       /\ (pc = "batch" /\ pc' # "batch")
             => (remaining = 0 /\ pc' = "ingest")]_vars

-----------------------------------------------------------------------------
(* C14 (as stated): when the upsert call for a record raises, the record is *)
(* counted in errors and not in processed, the table is unchanged and the   *)
(* loop goes on with the next record.                                       *)
C14_WriteFailureCounted ==
    [][(pc = "batch" /\ last'.op = "write_failed")
          => /\ errors' = errors + 1
             /\ processed' = processed
             /\ deals' = deals
             /\ remaining' = remaining - 1
             /\ pc' = "batch"]_vars

-----------------------------------------------------------------------------
(* C15 (as stated): a record whose link does not normalize to a non-empty   *)
(* URL (an empty link, a link of whitespace) leaves the table unchanged, is *)
(* counted in errors, and the loop goes on with the next record.            *)
C15_UnnormalizableSkippedAndCounted ==
    [][(pc = "batch" /\ last'.key.disc = "ht")
          => /\ deals' = deals
             /\ errors' = errors + 1
             /\ processed' = processed
             /\ remaining' = remaining - 1
             /\ pc' = "batch"]_vars

-----------------------------------------------------------------------------
(* C16 (as stated): the texts                                               *)
(* "HTTP://WWW.Example.com/path/?utm_source=x&b=2&a=1#frag" and             *)
(* "https://example.com/path?a=1&b=2" have the same normalize_url, and      *)
(* records carrying them get the same dedupe_key.                           *)
C16_ExampleUrlsConverge ==
    (probe.a = ExampleUpper /\ probe.b = ExampleCanonical)
        => /\ probe.stage # "raw" => probe.na = probe.nb
           /\ probe.stage \in {"keyed", "renormalized"} => probe.ka = probe.kb

-----------------------------------------------------------------------------
(* C17 (as stated): normalize_url applied to its own result returns that    *)
(* result, for every raw URL, so the dedupe_key computed from a stored url  *)
(* is the key the record was stored under.                                  *)
C17_NormalizeIdempotent ==
    probe.stage = "renormalized"
        => (probe.nna = probe.na /\ probe.kka = probe.ka)

-----------------------------------------------------------------------------
(* C18: two records whose URLs normalize to the same non-empty text get the *)
(* same dedupe_key, whatever their titles and host spellings, and two       *)
(* records whose normalized URLs differ get different keys.                 *)
C18_KeyFollowsNormalizedUrl ==
    probe.stage \in {"keyed", "renormalized"}
        => /\ (probe.na = probe.nb /\ probe.na # <<>>) => probe.ka = probe.kb
           /\ probe.na # probe.nb => probe.ka # probe.kb

C18_Witness ==
    /\ probe.stage = "keyed"
    /\ probe.na = probe.nb
    /\ probe.na # <<>>
    /\ probe.ka = probe.kb
    /\ probe.ta # probe.tb
    /\ get_hostname_text(probe.a) # get_hostname_text(probe.b)

-----------------------------------------------------------------------------
(* C19: a write leaves seen_count and evidence_urls at the values computed   *)
(* from the row the writing call's own lookup read, whatever other calls    *)
(* wrote in between; so when two calls look the same entity up before       *)
(* either writes, seen_count grows by 1 instead of 2 and the URLs the first *)
(* writer contributed are gone.                                             *)
C19_WriteCarriesItsOwnRead ==
    [][\A w \in Workers :
          (workers[w].at = "write" /\ workers'[w].at = "loop" /\ workers'[w].landed)
             => LET me == workers[w]
                    t == FindByKey(deals', KeyOf(me.item))
                IN  /\ deals'[t].seen_count = SeenCountFor(me.read)
                    /\ deals'[t].evidence_urls =
                          EvidenceFor(me.read, generate_evidence_urls(me.item, me.item.link))]_vars

C19_Witness ==
    \E w, v \in Workers : \E i \in 1..Len(deals) :
        /\ w # v
        /\ workers[w].landed /\ workers[v].landed
        /\ workers[w].read # <<>> /\ workers[w].read = workers[v].read
        /\ deals[i].dedupe_key = KeyOf(workers[w].item)
        /\ deals[i].dedupe_key = KeyOf(workers[v].item)
        /\ deals[i].seen_count = workers[w].read[1].seen_count + 1
        /\ written[deals[i].dedupe_key] = workers[w].read[1].seen_count + 2
        /\ \E u \in Range(generate_evidence_urls(workers[v].item, workers[v].item.link)) :
              u \notin Range(deals[i].evidence_urls)

-----------------------------------------------------------------------------
-----------------------------------------------------------------------------
(* C21 (as stated): under every interleaving of the curator's archive with  *)
(* an upsert of the same key, the archive coming between the call's lookup  *)
(* and its write included, no request of upsert_deals changes an entity     *)
(* that is archived: its seen_count, last_seen_at, evidence_urls and        *)
(* display fields stay as they were when it was archived.                   *)
C21_NoWriteOnceArchived ==
    [][(workers' # workers)
          => \A i \in 1..Len(deals) :
                deals[i].status = "archived" => deals'[i] = deals[i]]_vars

-----------------------------------------------------------------------------
(* C22 (as stated): under every interleaving of the curator's shortlist or  *)
(* archive with an upsert of the same key, no request of upsert_deals       *)
(* changes the status of an entity that is shortlisted or archived, also    *)
(* when the call's lookup saw the entity dismissed and eligible for         *)
(* reactivation before the curator acted.                                   *)
C22_CuratorStatusSurvivesUpsert ==
    [][(workers' # workers)
          => \A i \in 1..Len(deals) :
                deals[i].status \in {"shortlisted", "archived"}
                   => deals'[i].status = deals[i].status]_vars

-----------------------------------------------------------------------------
(* C23 (as stated): the dedupe_key of an entity is never changed once it is *)
(* assigned; in particular the entity upsert_deals stored for a record has, *)
(* after main() of the backfill script ran over it, the key it was stored   *)
(* under.                                                                   *)
C23_DedupeKeyImmutable ==
    probe.stage = "backfilled" => probe.kka = probe.ka

-----------------------------------------------------------------------------
(* C24: re-ingesting a record whose entity is dismissed without a           *)
(* dismissed_at turns the entity to status new with dismissed_reason and    *)
(* dismissed_at null and adds one to the reactivated count, however long    *)
(* ago the entity was first seen.                                           *)
C24_UnstampedDismissalRevived ==
    [][(/\ UpsertStep /\ Target # 0 /\ Landed
        /\ deals[Target].status = "dismissed"
        /\ deals[Target].dismissed_at = NULL)
          => /\ deals'[Target].status = "new"
             /\ deals'[Target].dismissed_reason = NoReason
             /\ deals'[Target].dismissed_at = NULL
             /\ reactivated' = reactivated + 1]_vars

C24_Witness ==
    /\ last.op = "merge"
    /\ last.status = "dismissed"
    /\ reactivated >= 1
    /\ \E i \in RowsOf(deals, last.key) :
          /\ deals[i].status = "new"
          /\ deals[i].dismissed_reason = NoReason
          /\ deals[i].dismissed_at = NULL
          /\ deals[i].last_seen_at = now
          /\ now - deals[i].first_seen_at > timedelta(REACTIVATION_DAYS)

-----------------------------------------------------------------------------
(* C25: in every state reached from the empty table, an entity whose status *)
(* is not dismissed has dismissed_reason and dismissed_at null.             *)
C25_DismissalFieldsOnlyWhileDismissed ==
    \A i \in 1..Len(deals) :
        deals[i].status # "dismissed"
           => (deals[i].dismissed_reason = NoReason /\ deals[i].dismissed_at = NULL)

C25_Witness ==
    /\ last.op = "merge"
    /\ last.status = "dismissed"
    /\ \E i \in RowsOf(deals, last.key) :
          /\ deals[i].status = "new"
          /\ deals[i].dismissed_reason = NoReason
          /\ deals[i].dismissed_at = NULL
          /\ deals[i].seen_count >= 2

-----------------------------------------------------------------------------
(* C26: an iteration of upsert_deals changes the status of an existing      *)
(* entity only from dismissed to new; an entity that is new or shortlisted  *)
(* keeps status, dismissed_reason and dismissed_at; and an entity the       *)
(* iteration creates has status new, seen_count 1 and first_seen_at and     *)
(* last_seen_at equal to the batch time.                                    *)
C26_OnlyDismissedToNew ==
    [][UpsertStep
          => /\ \A i \in 1..Len(deals) :
                   /\ deals'[i].status # deals[i].status
                         => (deals[i].status = "dismissed" /\ deals'[i].status = "new")
                   /\ deals[i].status # "dismissed"
                         => /\ deals'[i].dismissed_reason = deals[i].dismissed_reason
                            /\ deals'[i].dismissed_at = deals[i].dismissed_at
             /\ \A i \in (Len(deals) + 1)..Len(deals') :
                   /\ deals'[i].status = "new"
                   /\ deals'[i].seen_count = 1
                   /\ deals'[i].first_seen_at = now
                   /\ deals'[i].last_seen_at = now]_vars

C26_Witness ==
    /\ last.op = "create"
    /\ last.status = None
    /\ \E i \in RowsOf(deals, last.key) :
          /\ deals[i].status = "new"
          /\ deals[i].seen_count = 1
          /\ deals[i].first_seen_at = now
          /\ deals[i].last_seen_at = now
          /\ now > 0

-----------------------------------------------------------------------------
(* C27 (as stated): when two calls looked the same unseen key up before     *)
(* either wrote, the write that comes second leaves exactly one entity for  *)
(* the key and does not change the first_seen_at and created_at the first   *)
(* write set.                                                               *)
C27_SecondInsertKeepsFirstSeen ==
    [][\A w \in Workers :
          (/\ workers[w].at = "write" /\ workers'[w].at = "loop" /\ workers'[w].landed
           /\ workers[w].read = <<>>
           /\ FindByKey(deals, KeyOf(workers[w].item)) # 0)
             => LET t == FindByKey(deals, KeyOf(workers[w].item))
                IN  /\ Cardinality(RowsOf(deals', KeyOf(workers[w].item))) = 1
                    /\ deals'[t].first_seen_at = deals[t].first_seen_at
                    /\ deals'[t].created_at = deals[t].created_at]_vars

-----------------------------------------------------------------------------
(* C28 (as stated): an update of reactivate_dismissed_deals sets status new *)
(* only on an entity that is dismissed when the update is made; an entity   *)
(* the curator archived or shortlisted after the select keeps the curator's *)
(* status.                                                                  *)
C28_ReactivateOnlyDismissed ==
    [][(sweep' # sweep)
          => \A i \in 1..Len(deals) :
                deals[i].status # "dismissed" => deals'[i].status = deals[i].status]_vars

-----------------------------------------------------------------------------
(* C29 (as stated): in the result upsert_deals returns, every reactivation  *)
(* counted stands for a write that stored status new, so reactivated is at  *)
(* most processed; and processed plus errors is at most the number of       *)
(* records given.                                                           *)
C29_ReactivatedWithinProcessed ==
    (pc = "batch" /\ remaining = 0)
        => /\ reactivated <= processed
           /\ processed + errors <= MaxBatch

-----------------------------------------------------------------------------
(* C30: health_check_deals returns a report in every case.  When the        *)
(* statistics query fails the report has every counter 0 and no latest      *)
(* last_seen_at; when only the archived query fails the report has the      *)
(* statistics of the table and an archived count of 0; in both cases main() *)
(* returns 0.                                                               *)
C30_FailedAuditPasses ==
    [][(pc = "health" /\ pc' = "exit")
          => /\ health' # NoReport
             /\ health'.evidence_over_20 \in Nat
             /\ health'.seen_count_null \in Nat
             /\ health'.archived_updated_last_2h \in Nat
             /\ last'.op = "health_stats_failed"
                   => health' = ZeroReport /\ exit_code' = 0
             /\ last'.op = "health_archived_failed"
                   => /\ health' = [health_check_deals(deals, start_time, TRUE, TRUE)
                                        EXCEPT !.archived_updated_last_2h = 0]
                      /\ exit_code' = 0]_vars

\* the archived query failed in a run after whose start an archived entity
\* was written, and main() returned 0 with a report that is not all zero
C30_Witness ==
    /\ pc = "exit"
    /\ last.op = "health_archived_failed"
    /\ exit_code = 0
    /\ health # ZeroReport
    /\ health.archived_updated_last_2h = 0
    /\ \E i \in 1..Len(deals) : deals[i].status = "archived" /\ deals[i].last_seen_at > start_time

====
